---- MODULE Spec2Model ----
(***************************************************************************)
(* PitchLife: Conway's Game of Life on a bounded grid (js/GameOfLife.js).  *)
(* The Grid object, its double buffer and its update rule, the pattern     *)
(* stamper (mouse click) and the interval scheduler.                       *)
(***************************************************************************)
EXTENDS Integers, Sequences, FiniteSets, TLC

VARIABLES
    canvasWidth,    \* canvas.width, read once by initCanvas
    canvasHeight,   \* canvas.height
    cellLength,     \* pixel length of one cell
    timer,          \* the interval handle: NULL, or the id setInterval returned
    intervals,      \* the intervals the browser has active: id |-> period
    fps,            \* frames per second
    frameInterval,  \* milliseconds per frame, a quotient <<numerator, denominator>>
    grid,           \* the global Grid object
    twin,           \* a second Grid object that receives the same calls as grid
    pre,            \* history: grid as it was before the last call
    call,           \* history: the last call, its arguments and its return value
    gens,           \* history: consecutive update() calls since the last other mutation
    edits           \* history: mutating calls (setCell, click) since the grid was built

\* the globals of the program other than the grid
globals == <<canvasWidth, canvasHeight, cellLength, timer, intervals, fps, frameInterval>>

vars == <<globals, grid, twin, pre, call, gens, edits>>

----------------------------------------------------------------------------
(* Bounds of the model.                                                     *)

MaxCanvasWidth == 3
MaxCanvasHeight == 3
\* update() calls in a row that the model follows
MaxGens == 2
\* clicks on one Grid
MaxClicks == 1
\* pattern images have at most this many pixels (width * height)
MaxImagePixels == 4
\* setCell calls on one Grid in GridSpec
MaxSetCells == 2
\* GridSpec calls the Grid methods with rows -Margin .. height - 1 + Margin and
\* columns -Margin .. width - 1 + Margin
Margin == 1
\* TwinSpec: grids of at most this many cells (width * height)
MaxTwinCells == 6
\* BlinkerSpec: canvases of 5 .. MaxBlinkerCanvas pixels a side
MaxBlinkerCanvas == 6
\* BlockSpec: canvases of 4 .. MaxBlockCanvas pixels a side
MaxBlockCanvas == 5
\* SetCellSpec: canvases of 1 .. MaxSetCellCanvas pixels a side
MaxSetCellCanvas == 2
\* TickSpec: canvases of 1 .. MaxTickCanvas pixels a side
MaxTickCanvas == 2

----------------------------------------------------------------------------
(* Program constants.                                                       *)

DEAD_CELL == 0
LIVE_CELL == 1

TOP_LEFT == 0
TOP_RIGHT == 1
BOTTOM_LEFT == 2
BOTTOM_RIGHT == 3
TOP == 4
BOTTOM == 5
LEFT == 6
RIGHT == 7
CENTER == 8

MILLISECONDS_IN_ONE_SECOND == 1000
MAX_FPS == 30
MIN_FPS == 1
FPS_INC == 1
MAX_CELL_LENGTH == 32
MIN_CELL_LENGTH == 1
CELL_LENGTH_INC == 2

\* timer = null
NULL == 0
\* the sentinel getCell returns for a position isValidCell rejects
INVALID_CELL == -1
\* JavaScript's undefined: what reading an array index that was never written gives
UNDEFINED == -2
\* JavaScript's NaN: what a number + undefined gives
NAN == -3

----------------------------------------------------------------------------
(* JavaScript values and arrays.                                            *)
(* An array is a function from the indices that were written to values; an  *)
(* index that was never written reads as undefined, and any integer index   *)
(* (negative ones too: they become properties of the array object) can be   *)
(* written.                                                                 *)

ArrayGet(a, index) == IF index \in DOMAIN a THEN a[index] ELSE UNDEFINED

ArrayPut(a, index, value) ==
    IF index \in DOMAIN a
    THEN [a EXCEPT ![index] = value]
    ELSE [k \in (DOMAIN a) \cup {index} |-> IF k = index THEN value ELSE a[k]]

\* a + b, for a a number or NaN and b a number or undefined
JsAdd(a, b) == IF a = NAN \/ b = UNDEFINED THEN NAN ELSE a + b

\* the greatest common divisor of a >= 0 and b >= 0, not both 0
RECURSIVE Gcd(_, _)
Gcd(a, b) == IF b = 0 THEN a ELSE Gcd(b, a % b)

\* a / b for integers a >= 0 and b > 0: the quotient in lowest terms, so that two
\* quotients are the same number exactly when they are equal
JsDivide(a, b) == <<a \div Gcd(a, b), b \div Gcd(a, b)>>

\* a < b and a > b: every comparison with NaN is false
JsLess(a, b) == a # NAN /\ b # NAN /\ a < b
JsGreater(a, b) == a # NAN /\ b # NAN /\ a > b

----------------------------------------------------------------------------
(* The neighbour lookup table.  cellValues is the flat array of the source: *)
(* (dcol, drow) pairs; JavaScript index k is Sequence index k + 1.          *)

CellType(initNumNeighbors, initCellValues) ==
    [numNeighbors |-> initNumNeighbors, cellValues |-> initCellValues]

\* cellLookup with the last pair of CENTER, the neighbour above, left out
cellLookupShortCenter ==
    [cellType \in TOP_LEFT .. CENTER |->
        CASE cellType = TOP_LEFT     -> CellType(3, <<1, 0, 1, 1, 0, 1>>)
          [] cellType = TOP_RIGHT    -> CellType(3, <<-1, 0, -1, 1, 0, 1>>)
          [] cellType = BOTTOM_LEFT  -> CellType(3, <<1, 0, 1, -1, 0, -1>>)
          [] cellType = BOTTOM_RIGHT -> CellType(3, <<-1, 0, -1, -1, 0, -1>>)
          [] cellType = TOP          -> CellType(5, <<-1, 0, -1, 1, 0, 1, 1, 1, 1, 0>>)
          [] cellType = BOTTOM       -> CellType(5, <<-1, 0, -1, -1, 0, -1, 1, -1, 1, 0>>)
          [] cellType = LEFT         -> CellType(5, <<0, -1, 1, -1, 1, 0, 1, 1, 0, 1>>)
          [] cellType = RIGHT        -> CellType(5, <<0, -1, -1, -1, -1, 0, -1, 1, 0, 1>>)
          [] cellType = CENTER       ->
                CellType(7, <<-1, -1, -1, 0, -1, 1, 0, 1, 1, 1, 1, 0, 1, -1>>)]

\* the table initCellLookup builds, indexed by the cell type
cellLookup ==
    [cellType \in TOP_LEFT .. CENTER |->
        CASE cellType = TOP_LEFT     -> CellType(3, <<1, 0, 1, 1, 0, 1>>)
          [] cellType = TOP_RIGHT    -> CellType(3, <<-1, 0, -1, 1, 0, 1>>)
          [] cellType = BOTTOM_LEFT  -> CellType(3, <<1, 0, 1, -1, 0, -1>>)
          [] cellType = BOTTOM_RIGHT -> CellType(3, <<-1, 0, -1, -1, 0, -1>>)
          [] cellType = TOP          -> CellType(5, <<-1, 0, -1, 1, 0, 1, 1, 1, 1, 0>>)
          [] cellType = BOTTOM       -> CellType(5, <<-1, 0, -1, -1, 0, -1, 1, -1, 1, 0>>)
          [] cellType = LEFT         -> CellType(5, <<0, -1, 1, -1, 1, 0, 1, 1, 0, 1>>)
          [] cellType = RIGHT        -> CellType(5, <<0, -1, -1, -1, -1, 0, -1, 1, 0, 1>>)
          [] cellType = CENTER       ->
                CellType(8, <<-1, -1, -1, 0, -1, 1, 0, 1, 1, 1, 1, 0, 1, -1, 0, -1>>)]

----------------------------------------------------------------------------
(* Grid.  A Grid object is a record of its fields; its methods are          *)
(* operators that take the object and return what they return, or the       *)
(* object after the call.                                                   *)

\* _getCellType(row, col) of new Grid(width / den, height / den): row === height - 1
\* compares row with (height / den) - 1
_getCellType(width, height, den, row, col) ==
    IF (row = 0) /\ (col = 0) THEN TOP_LEFT
    ELSE IF (row = 0) /\ ((col * den) = (width - den)) THEN TOP_RIGHT
    ELSE IF ((row * den) = (height - den)) /\ (col = 0) THEN BOTTOM_LEFT
    ELSE IF ((row * den) = (height - den)) /\ ((col * den) = (height - den)) THEN BOTTOM_RIGHT
    ELSE IF row = 0 THEN TOP
    ELSE IF col = 0 THEN LEFT
    ELSE IF (row * den) = (height - den) THEN RIGHT
    ELSE IF (col * den) = (width - den) THEN BOTTOM
    ELSE CENTER

\* the array index (row * width) + col of a Grid, in units of 1 / den
flatIndex(width, den, row, col) == (row * width) + (col * den)

\* the indices the constructor's loop writes: (i * width) + j for every integer
\* 0 <= i < height and 0 <= j < width
constructorIndices(width, height, den) ==
    { flatIndex(width, den, i, j) :
        i \in { r \in 0 .. height : (r * den) < height },
        j \in { c \in 0 .. width : (c * den) < width } }

\* new Grid(width / den, height / den), for integers width, height, den >= 1.  The
\* fields width and height hold the numerators, _num_cells holds
\* (width * height) - 1 in units of 1 / (den * den), and an array index holds
\* (row * width) + col in units of 1 / den; with den = 1 every field is the
\* number the source holds.
Grid(width, height, den) ==
    [ width      |-> width,
      height     |-> height,
      den        |-> den,
      cells      |-> [index \in constructorIndices(width, height, den) |-> DEAD_CELL],
      next       |-> [index \in constructorIndices(width, height, den) |-> DEAD_CELL],
      newborns   |-> <<>>,
      cell_types |-> [index \in constructorIndices(width, height, den) |->
                         _getCellType(width, height, den,
                                      index \div width, (index % width) \div den)],
      _num_cells |-> (width * height) - (den * den) ]

isValidCell(g, row, col) ==
    ((col * g.den) < g.width)
        /\ ((flatIndex(g.width, g.den, row, col) * g.den) < g._num_cells)

\* setCell that writes the scratch buffer as well
setCellBothBuffers(g, row, col, value) ==
    IF isValidCell(g, row, col)
    THEN [g EXCEPT !.cells = ArrayPut(@, flatIndex(g.width, g.den, row, col), value),
                   !.next = ArrayPut(@, flatIndex(g.width, g.den, row, col), value)]
    ELSE g

setCell(g, row, col, value) ==
    IF isValidCell(g, row, col)
    THEN [g EXCEPT !.cells = ArrayPut(@, flatIndex(g.width, g.den, row, col), value)]
    ELSE g

getCell(g, row, col) ==
    IF isValidCell(g, row, col)
    THEN ArrayGet(g.cells, flatIndex(g.width, g.den, row, col))
    ELSE INVALID_CELL

determineCellType(g, row, col) == ArrayGet(g.cell_types, flatIndex(g.width, g.den, row, col))

\* the loop of calcLivingNeighbors from counter on, numLivingNeighbors so far
RECURSIVE calcLivingNeighborsFrom(_, _, _, _, _, _)
calcLivingNeighborsFrom(g, row, col, cellsToCheck, counter, numLivingNeighbors) ==
    IF counter < (cellsToCheck.numNeighbors * 2)
    THEN LET neighborCol == col + cellsToCheck.cellValues[counter + 1]
             neighborRow == row + cellsToCheck.cellValues[counter + 2]
             index == flatIndex(g.width, g.den, neighborRow, neighborCol)
             neighborValue == ArrayGet(g.cells, index)
         IN  calcLivingNeighborsFrom(g, row, col, cellsToCheck, counter + 2,
                                     JsAdd(numLivingNeighbors, neighborValue))
    ELSE numLivingNeighbors

calcLivingNeighbors(g, row, col) ==
    LET cellType == determineCellType(g, row, col)
        cellsToCheck == cellLookup[cellType]
    IN  calcLivingNeighborsFrom(g, row, col, cellsToCheck, 0, 0)

\* updateCell that writes nothing for a LIVE cell with 2 or 3 living neighbours
\* and so leaves the scratch buffer's old entry in place
updateCellKeepsEntry(g, i, j) ==
    LET numLivingNeighbors == calcLivingNeighbors(g, i, j)
        testCell == getCell(g, i, j)
        index == flatIndex(g.width, g.den, i, j)
    IN  IF testCell = LIVE_CELL
        THEN IF JsLess(numLivingNeighbors, 2) \/ JsGreater(numLivingNeighbors, 3)
             THEN [g EXCEPT !.next = ArrayPut(@, index, DEAD_CELL)]
             ELSE g
        ELSE IF numLivingNeighbors = 3
             THEN [g EXCEPT !.next = ArrayPut(@, index, LIVE_CELL),
                            !.newborns[i + 1] = Append(@, j)]
             ELSE [g EXCEPT !.next = ArrayPut(@, index, DEAD_CELL)]

\* updateCell that lets a LIVE cell die of 3 living neighbours already
updateCellCrowdedAtThree(g, i, j) ==
    LET numLivingNeighbors == calcLivingNeighbors(g, i, j)
        testCell == getCell(g, i, j)
        index == flatIndex(g.width, g.den, i, j)
    IN  IF testCell = LIVE_CELL
        THEN IF JsLess(numLivingNeighbors, 2) \/ JsGreater(numLivingNeighbors, 2)
             THEN [g EXCEPT !.next = ArrayPut(@, index, DEAD_CELL)]
             ELSE [g EXCEPT !.next = ArrayPut(@, index, LIVE_CELL)]
        ELSE IF numLivingNeighbors = 3
             THEN [g EXCEPT !.next = ArrayPut(@, index, LIVE_CELL),
                            !.newborns[i + 1] = Append(@, j)]
             ELSE [g EXCEPT !.next = ArrayPut(@, index, DEAD_CELL)]

\* updateCell whose birth test is "neither below 3 nor above 3", which NaN passes
updateCellBirthUnlessCompared(g, i, j) ==
    LET numLivingNeighbors == calcLivingNeighbors(g, i, j)
        testCell == getCell(g, i, j)
        index == flatIndex(g.width, g.den, i, j)
    IN  IF testCell = LIVE_CELL
        THEN IF JsLess(numLivingNeighbors, 2) \/ JsGreater(numLivingNeighbors, 3)
             THEN [g EXCEPT !.next = ArrayPut(@, index, DEAD_CELL)]
             ELSE [g EXCEPT !.next = ArrayPut(@, index, LIVE_CELL)]
        ELSE IF ~JsLess(numLivingNeighbors, 3) /\ ~JsGreater(numLivingNeighbors, 3)
             THEN [g EXCEPT !.next = ArrayPut(@, index, LIVE_CELL),
                            !.newborns[i + 1] = Append(@, j)]
             ELSE [g EXCEPT !.next = ArrayPut(@, index, DEAD_CELL)]

\* updateCell that writes the new state into the current buffer
updateCellInPlace(g, i, j) ==
    LET numLivingNeighbors == calcLivingNeighbors(g, i, j)
        testCell == getCell(g, i, j)
        index == flatIndex(g.width, g.den, i, j)
    IN  IF testCell = LIVE_CELL
        THEN IF JsLess(numLivingNeighbors, 2) \/ JsGreater(numLivingNeighbors, 3)
             THEN [g EXCEPT !.cells = ArrayPut(@, index, DEAD_CELL)]
             ELSE [g EXCEPT !.cells = ArrayPut(@, index, LIVE_CELL)]
        ELSE IF numLivingNeighbors = 3
             THEN [g EXCEPT !.cells = ArrayPut(@, index, LIVE_CELL),
                            !.newborns[i + 1] = Append(@, j)]
             ELSE [g EXCEPT !.cells = ArrayPut(@, index, DEAD_CELL)]

\* the body of update's inner loop for cell (i, j): reads g.cells, writes g.next
\* and g.newborns (newborns[i] is Sequence element i + 1)
updateCell(g, i, j) ==
    LET numLivingNeighbors == calcLivingNeighbors(g, i, j)
        testCell == getCell(g, i, j)
        index == flatIndex(g.width, g.den, i, j)
    IN  IF testCell = LIVE_CELL
        THEN IF JsLess(numLivingNeighbors, 2) \/ JsGreater(numLivingNeighbors, 3)
             THEN [g EXCEPT !.next = ArrayPut(@, index, DEAD_CELL)]
             ELSE [g EXCEPT !.next = ArrayPut(@, index, LIVE_CELL)]
        ELSE IF numLivingNeighbors = 3
             THEN [g EXCEPT !.next = ArrayPut(@, index, LIVE_CELL),
                            !.newborns[i + 1] = Append(@, j)]
             ELSE [g EXCEPT !.next = ArrayPut(@, index, DEAD_CELL)]

\* update's inner loop over the columns j .. width - 1 of row i
RECURSIVE updateColumns(_, _, _)
updateColumns(g, i, j) ==
    IF (j * g.den) < g.width THEN updateColumns(updateCell(g, i, j), i, j + 1) ELSE g

\* update's outer loop over the rows i .. height - 1
RECURSIVE updateRows(_, _)
updateRows(g, i) ==
    IF (i * g.den) < g.height
    THEN updateRows(updateColumns([g EXCEPT !.newborns = Append(@, <<>>)], i, 0), i + 1)
    ELSE g

\* the swap that ends update
swapBuffers(g) == [g EXCEPT !.cells = g.next, !.next = g.cells]

update(g) == swapBuffers(updateRows([g EXCEPT !.newborns = <<>>], 0))

\* g after the two loops of update(), before the swap
AfterPass(g) == updateRows([g EXCEPT !.newborns = <<>>], 0)

----------------------------------------------------------------------------
(* Patterns.  An image is a function from its pixel numbers 0 .. w*h - 1 to *)
(* <<r, g, b>>; respondToLoadedImage scans data[i], i = 0, 4, 8, ..., so    *)
(* pixel number p is Math.floor(i / 4).                                     *)

PixelColours == { <<0, 0, 0>>, <<255, 255, 255>>, <<255, 0, 0>> }

\* the loop of respondToLoadedImage from pixel number p on
RECURSIVE respondToLoadedImageFrom(_, _, _, _)
respondToLoadedImageFrom(imgWidth, data, p, pixelArray) ==
    IF p \in DOMAIN data
    THEN LET r == data[p][1]
             gr == data[p][2]
             b == data[p][3]
             x == p % imgWidth
             y == p \div imgWidth
         IN  respondToLoadedImageFrom(imgWidth, data, p + 1,
                 IF (r < 255) /\ (gr < 255) /\ (b < 255)
                 THEN pixelArray \o <<x, y>>
                 ELSE pixelArray)
    ELSE pixelArray

respondToLoadedImage(imgWidth, data) == respondToLoadedImageFrom(imgWidth, data, 0, <<>>)

\* the sizes of the pattern images
ImageSizes ==
    { size \in (1 .. MaxImagePixels) \X (1 .. MaxImagePixels) : size[1] * size[2] <= MaxImagePixels }

\* patterns[key] for every image: the pixel arrays the drop-down list can select
patterns ==
    UNION { { respondToLoadedImage(size[1], data) :
                data \in [0 .. (size[1] * size[2]) - 1 -> PixelColours] } : size \in ImageSizes }

\* the loop of respondToMouseClick from pixel index i on (JavaScript index i is
\* Sequence index i + 1)
RECURSIVE stampFrom(_, _, _, _, _)
stampFrom(g, clickRow, clickCol, pixels, i) ==
    IF i < Len(pixels)
    THEN LET col == clickCol + pixels[i + 1]
             row == clickRow + pixels[i + 2]
         IN  stampFrom(setCell(g, row, col, LIVE_CELL), clickRow, clickCol, pixels, i + 2)
    ELSE g

\* the grid after respondToMouseClick for a click at canvas coordinates (x, y)
respondToMouseClick(g, x, y, len, pixels) ==
    stampFrom(g, y \div len, x \div len, pixels, 0)

----------------------------------------------------------------------------
(* The program.                                                             *)

\* a / b in JavaScript, where b divides a
Quotient(a, b) == CHOOSE q \in 0 .. a : q * b = a

\* the Grid that resetGameOfLife builds: new Grid(width / len, height / len)
resetGameOfLife(width, height, len) == Grid(width, height, len)

\* the history of a call: what was called, with what, and what it returned
Call(op, args, ret) == [op |-> op, args |-> args, ret |-> ret]

\* the state after initGameOfLife (initCanvas, initGameOfLifeData, resetGameOfLife)
\* on a canvas of width x height pixels
InitOn(width, height) ==
    /\ canvasWidth = width
    /\ canvasHeight = height
    /\ cellLength = MIN_CELL_LENGTH
    /\ timer = NULL
    /\ intervals = <<>>
    /\ fps = MAX_FPS
    /\ frameInterval = JsDivide(MILLISECONDS_IN_ONE_SECOND, fps)
    /\ grid = resetGameOfLife(canvasWidth, canvasHeight, cellLength)
    /\ twin = grid
    /\ pre = grid
    /\ call = Call("initGameOfLife", <<>>, UNDEFINED)
    /\ gens = 0
    /\ edits = 0

Init == \E width \in 1 .. MaxCanvasWidth, height \in 1 .. MaxCanvasHeight : InitOn(width, height)

\* setInterval: an id that no interval, active or cleared a moment ago, has
setInterval(active, old) == CHOOSE id \in 1 .. Cardinality(active) + 2 : id \notin active \cup {old}

\* clearInterval(id): clearing null, or an id that is not active, does nothing
clearInterval(active, id) == [k \in (DOMAIN active) \ {id} |-> active[k]]

\* startGameOfLife that does not clear the interval it finds
startGameOfLifeKeepsOld(t, active, period) ==
    LET id == setInterval(DOMAIN active, t)
    IN  [ timer     |-> id,
          intervals |-> [k \in (DOMAIN active) \cup {id} |->
                            IF k = id THEN period ELSE active[k]] ]

\* startGameOfLife: timer and intervals after it, for the timer t, the active
\* intervals and the frameInterval it finds
startGameOfLife(t, active, period) ==
    LET cleared == IF t # NULL THEN clearInterval(active, t) ELSE active
        id == setInterval(DOMAIN cleared, t)
    IN  [ timer     |-> id,
          intervals |-> [k \in (DOMAIN cleared) \cup {id} |->
                            IF k = id THEN period ELSE cleared[k]] ]

\* pauseGameOfLife that forgets the handle and leaves the interval active
pauseGameOfLifeKeepsInterval(t, active) ==
    [ timer |-> NULL, intervals |-> active ]

\* pauseGameOfLife: timer and intervals after it
pauseGameOfLife(t, active) ==
    [ timer |-> NULL, intervals |-> clearInterval(active, t) ]

\* the click handler, for a click at pixel (x, y) of the canvas; args is what the
\* history keeps of the click
Stamp(x, y, pixels, args) ==
    /\ edits < MaxClicks
    /\ grid' = respondToMouseClick(grid, x, y, cellLength, pixels)
    /\ twin' = grid'
    /\ pre' = grid
    /\ call' = Call("respondToMouseClick", args, UNDEFINED)
    /\ gens' = 0
    /\ edits' = edits + 1
    /\ UNCHANGED globals

\* a click, remembered with its origin (row, col) and its pattern
Click(x, y, pixels) == Stamp(x, y, pixels, <<y \div cellLength, x \div cellLength, pixels>>)

\* the play/pause button: startGameOfLife when timer is null, else pauseGameOfLife
PlayPause ==
    /\ LET after == IF timer = NULL
                    THEN startGameOfLife(timer, intervals, frameInterval)
                    ELSE pauseGameOfLife(timer, intervals)
       IN  /\ timer' = after.timer
           /\ intervals' = after.intervals
    /\ pre' = grid
    /\ call' = Call("play_pause", <<>>, UNDEFINED)
    /\ UNCHANGED <<canvasWidth, canvasHeight, cellLength, fps, frameInterval,
                   grid, twin, gens, edits>>

\* an active interval fires: stepGameOfLife
Step ==
    /\ DOMAIN intervals # {}
    /\ gens < MaxGens
    /\ grid' = update(grid)
    /\ twin' = grid'
    /\ pre' = grid
    /\ call' = Call("stepGameOfLife", <<>>, UNDEFINED)
    /\ gens' = gens + 1
    /\ UNCHANGED <<globals, edits>>

\* the reset button
Reset ==
    /\ grid' = resetGameOfLife(canvasWidth, canvasHeight, cellLength)
    /\ twin' = grid'
    /\ pre' = grid
    /\ call' = Call("resetGameOfLife", <<>>, UNDEFINED)
    /\ gens' = 0
    /\ edits' = 0
    /\ UNCHANGED globals

Next ==
    \/ \E x \in 0 .. canvasWidth - 1, y \in 0 .. canvasHeight - 1, pixels \in patterns :
          Click(x, y, pixels)
    \/ PlayPause
    \/ Step
    \/ Reset

Spec == Init /\ [][Next]_vars

----------------------------------------------------------------------------
(* The Grid object on its own: the grid the program built, and any          *)
(* sequence of calls of its methods, with arguments inside and outside the  *)
(* grid.                                                                    *)

Rows == (0 - Margin) .. (grid.height - 1 + Margin)
Cols == (0 - Margin) .. (grid.width - 1 + Margin)

SetCell(row, col, value) ==
    /\ edits < MaxSetCells
    /\ grid' = setCell(grid, row, col, value)
    /\ twin' = grid'
    /\ pre' = grid
    /\ call' = Call("setCell", <<row, col, value>>, UNDEFINED)
    /\ gens' = 0
    /\ edits' = edits + 1
    /\ UNCHANGED globals

GetCell(row, col) ==
    /\ call.op \notin {"getCell", "isValidCell"}
    /\ pre' = grid
    /\ call' = Call("getCell", <<row, col>>, getCell(grid, row, col))
    /\ UNCHANGED <<globals, grid, twin, gens, edits>>

IsValidCell(row, col) ==
    /\ call.op \notin {"getCell", "isValidCell"}
    /\ pre' = grid
    /\ call' = Call("isValidCell", <<row, col>>, isValidCell(grid, row, col))
    /\ UNCHANGED <<globals, grid, twin, gens, edits>>

Update ==
    /\ gens < MaxGens
    /\ grid' = update(grid)
    /\ twin' = grid'
    /\ pre' = grid
    /\ call' = Call("update", <<>>, UNDEFINED)
    /\ gens' = gens + 1
    /\ UNCHANGED <<globals, edits>>

GridNext ==
    \/ \E row \in Rows, col \in Cols, value \in {DEAD_CELL, LIVE_CELL} : SetCell(row, col, value)
    \/ \E row \in Rows, col \in Cols : GetCell(row, col)
    \/ \E row \in Rows, col \in Cols : IsValidCell(row, col)
    \/ Update

GridSpec == Init /\ [][GridNext]_vars

----------------------------------------------------------------------------
(* Two Grid objects with the same current buffer.  twin receives every call *)
(* that grid receives; before an update its scratch buffer is overwritten   *)
(* with arbitrary cell states, which nothing in the program does but which  *)
(* no caller of update() may rely on.                                       *)

\* buffer with its entries for the positions of the grid replaced by those of scratch
Scribble(buffer, scratch) ==
    [k \in DOMAIN buffer |-> IF k \in DOMAIN scratch THEN scratch[k] ELSE buffer[k]]

\* a scheduler tick that updates both grids; args records whether the scratch
\* buffers differed
StepTwin(scratch) ==
    /\ DOMAIN intervals # {}
    /\ gens < MaxGens
    /\ grid' = update(grid)
    /\ twin' = update([twin EXCEPT !.next = Scribble(@, scratch)])
    /\ pre' = grid
    /\ call' = Call("stepGameOfLife", <<Scribble(twin.next, scratch) # grid.next>>, UNDEFINED)
    /\ gens' = gens + 1
    /\ UNCHANGED <<globals, edits>>

TwinInit ==
    \E width \in 1 .. MaxTwinCells, height \in 1 .. MaxTwinCells :
        /\ width * height <= MaxTwinCells
        /\ InitOn(width, height)

TwinNext ==
    \/ \E x \in 0 .. canvasWidth - 1, y \in 0 .. canvasHeight - 1, pixels \in patterns :
          edits = 0 /\ Stamp(x, y, pixels, <<>>)
    \/ PlayPause
    \/ \E scratch \in [0 .. (grid.width * grid.height) - 1 -> {DEAD_CELL, LIVE_CELL}] :
          StepTwin(scratch)

TwinSpec == TwinInit /\ [][TwinNext]_vars

----------------------------------------------------------------------------
(* One pattern stamped on the fresh grid of a canvas of at least 5 x 5      *)
(* pixels, and the scheduler.                                               *)

BlinkerInit ==
    \E width \in 5 .. MaxBlinkerCanvas, height \in 5 .. MaxBlinkerCanvas : InitOn(width, height)

BlinkerNext ==
    \/ \E x \in 0 .. canvasWidth - 1, y \in 0 .. canvasHeight - 1, pixels \in patterns :
          edits = 0 /\ Stamp(x, y, pixels, <<>>)
    \/ PlayPause
    \/ Step

BlinkerSpec == BlinkerInit /\ [][BlinkerNext]_vars

----------------------------------------------------------------------------
(* The same on a canvas of at least 4 x 4 pixels, the smallest that holds a *)
(* 2 x 2 block away from every edge.                                        *)

BlockInit ==
    \E width \in 4 .. MaxBlockCanvas, height \in 4 .. MaxBlockCanvas : InitOn(width, height)

BlockNext ==
    \/ \E x \in 0 .. canvasWidth - 1, y \in 0 .. canvasHeight - 1, pixels \in patterns :
          edits = 0 /\ Stamp(x, y, pixels, <<>>)
    \/ PlayPause
    \/ Step

BlockSpec == BlockInit /\ [][BlockNext]_vars

----------------------------------------------------------------------------
(* The buttons that change the frame rate and the cell length.  The history *)
(* keeps the value the handler found: fps, or cellLength.                   *)

\* DecFPS whose guard lets fps = MIN_FPS through
DecFPSAtMinToo ==
    /\ IF fps >= MIN_FPS
       THEN /\ fps' = fps - FPS_INC
            /\ frameInterval' = JsDivide(1000, fps')
            /\ IF timer # NULL
               THEN LET after == startGameOfLife(timer, intervals, frameInterval')
                    IN  timer' = after.timer /\ intervals' = after.intervals
               ELSE UNCHANGED <<timer, intervals>>
       ELSE UNCHANGED <<fps, frameInterval, timer, intervals>>
    /\ pre' = grid
    /\ call' = Call("decFPS", <<fps>>, UNDEFINED)
    /\ UNCHANGED <<canvasWidth, canvasHeight, cellLength, grid, twin, gens, edits>>

\* DecFPS that leaves a running interval as it is
DecFPSKeepsInterval ==
    /\ IF fps > MIN_FPS
       THEN /\ fps' = fps - FPS_INC
            /\ frameInterval' = JsDivide(1000, fps')
       ELSE UNCHANGED <<fps, frameInterval>>
    /\ pre' = grid
    /\ call' = Call("decFPS", <<fps>>, UNDEFINED)
    /\ UNCHANGED <<canvasWidth, canvasHeight, cellLength, timer, intervals,
                   grid, twin, gens, edits>>

\* the dec_fps button
DecFPS ==
    /\ IF fps > MIN_FPS
       THEN /\ fps' = fps - FPS_INC
            /\ frameInterval' = JsDivide(1000, fps')
            /\ IF timer # NULL
               THEN LET after == startGameOfLife(timer, intervals, frameInterval')
                    IN  timer' = after.timer /\ intervals' = after.intervals
               ELSE UNCHANGED <<timer, intervals>>
       ELSE UNCHANGED <<fps, frameInterval, timer, intervals>>
    /\ pre' = grid
    /\ call' = Call("decFPS", <<fps>>, UNDEFINED)
    /\ UNCHANGED <<canvasWidth, canvasHeight, cellLength, grid, twin, gens, edits>>

\* the inc_fps button
IncFPS ==
    /\ IF fps < MAX_FPS
       THEN /\ fps' = fps + FPS_INC
            /\ frameInterval' = JsDivide(MILLISECONDS_IN_ONE_SECOND, fps')
            /\ IF timer # NULL
               THEN LET after == startGameOfLife(timer, intervals, frameInterval')
                    IN  timer' = after.timer /\ intervals' = after.intervals
               ELSE UNCHANGED <<timer, intervals>>
       ELSE UNCHANGED <<fps, frameInterval, timer, intervals>>
    /\ pre' = grid
    /\ call' = Call("incFPS", <<fps>>, UNDEFINED)
    /\ UNCHANGED <<canvasWidth, canvasHeight, cellLength, grid, twin, gens, edits>>

\* the dec_cell_length button
DecCellLength ==
    /\ IF cellLength > MIN_CELL_LENGTH
       THEN /\ cellLength' = Quotient(cellLength, CELL_LENGTH_INC)
            /\ grid' = resetGameOfLife(canvasWidth, canvasHeight, cellLength')
            /\ twin' = grid'
            /\ gens' = 0
            /\ edits' = 0
       ELSE UNCHANGED <<cellLength, grid, twin, gens, edits>>
    /\ pre' = grid
    /\ call' = Call("decCellLength", <<cellLength>>, UNDEFINED)
    /\ UNCHANGED <<canvasWidth, canvasHeight, timer, intervals, fps, frameInterval>>

\* IncCellLength that changes the cell length and keeps the Grid it finds
IncCellLengthKeepsGrid ==
    /\ IF cellLength < MAX_CELL_LENGTH
       THEN cellLength' = cellLength * CELL_LENGTH_INC
       ELSE UNCHANGED cellLength
    /\ pre' = grid
    /\ call' = Call("incCellLength", <<cellLength>>, UNDEFINED)
    /\ UNCHANGED <<canvasWidth, canvasHeight, timer, intervals, fps, frameInterval,
                   grid, twin, gens, edits>>

\* IncCellLength that builds a new Grid at the bound too
IncCellLengthRebuildsAtBound ==
    /\ IF cellLength < MAX_CELL_LENGTH
       THEN cellLength' = cellLength * CELL_LENGTH_INC
       ELSE UNCHANGED cellLength
    /\ grid' = resetGameOfLife(canvasWidth, canvasHeight, cellLength')
    /\ twin' = grid'
    /\ gens' = 0
    /\ edits' = 0
    /\ pre' = grid
    /\ call' = Call("incCellLength", <<cellLength>>, UNDEFINED)
    /\ UNCHANGED <<canvasWidth, canvasHeight, timer, intervals, fps, frameInterval>>

\* the inc_cell_length button
IncCellLength ==
    /\ IF cellLength < MAX_CELL_LENGTH
       THEN /\ cellLength' = cellLength * CELL_LENGTH_INC
            /\ grid' = resetGameOfLife(canvasWidth, canvasHeight, cellLength')
            /\ twin' = grid'
            /\ gens' = 0
            /\ edits' = 0
       ELSE UNCHANGED <<cellLength, grid, twin, gens, edits>>
    /\ pre' = grid
    /\ call' = Call("incCellLength", <<cellLength>>, UNDEFINED)
    /\ UNCHANGED <<canvasWidth, canvasHeight, timer, intervals, fps, frameInterval>>

----------------------------------------------------------------------------
(* The grid under clicks, ticks, reset and the two cell length buttons.     *)

ZoomNext ==
    \/ \E x \in 0 .. canvasWidth - 1, y \in 0 .. canvasHeight - 1, pixels \in patterns :
          edits = 0 /\ Stamp(x, y, pixels, <<>>)
    \/ PlayPause
    \/ Step
    \/ Reset
    \/ DecCellLength
    \/ IncCellLength

ZoomSpec == Init /\ [][ZoomNext]_vars

----------------------------------------------------------------------------
(* The scheduler: the play/pause button, the two frame rate buttons, reset, *)
(* the ticks, and startGameOfLife and pauseGameOfLife called on their own,  *)
(* in whatever state the scheduler is in.  The history keeps the timer the  *)
(* call found.                                                              *)

StartGameOfLife ==
    /\ LET after == startGameOfLife(timer, intervals, frameInterval)
       IN  /\ timer' = after.timer
           /\ intervals' = after.intervals
    /\ pre' = grid
    /\ call' = Call("startGameOfLife", <<timer>>, UNDEFINED)
    /\ UNCHANGED <<canvasWidth, canvasHeight, cellLength, fps, frameInterval,
                   grid, twin, gens, edits>>

PauseGameOfLife ==
    /\ LET after == pauseGameOfLife(timer, intervals)
       IN  /\ timer' = after.timer
           /\ intervals' = after.intervals
    /\ pre' = grid
    /\ call' = Call("pauseGameOfLife", <<timer>>, UNDEFINED)
    /\ UNCHANGED <<canvasWidth, canvasHeight, cellLength, fps, frameInterval,
                   grid, twin, gens, edits>>

SchedulerNext ==
    \/ PlayPause
    \/ StartGameOfLife
    \/ PauseGameOfLife
    \/ Step
    \/ Reset
    \/ DecFPS
    \/ IncFPS

SchedulerSpec == Init /\ [][SchedulerNext]_vars

----------------------------------------------------------------------------
(* setCell at the positions of the grid, on a grid that a pattern was       *)
(* stamped on and that was updated, or on a fresh one.                      *)

SetCellInit ==
    \E width \in 1 .. MaxSetCellCanvas, height \in 1 .. MaxSetCellCanvas : InitOn(width, height)

SetCellNext ==
    \/ \E x \in 0 .. canvasWidth - 1, y \in 0 .. canvasHeight - 1, pixels \in patterns :
          edits = 0 /\ Stamp(x, y, pixels, <<>>)
    \/ \E row \in 0 .. grid.height - 1, col \in 0 .. grid.width - 1,
          value \in {DEAD_CELL, LIVE_CELL} : SetCell(row, col, value)
    \/ PlayPause
    \/ Step

SetCellSpec == SetCellInit /\ [][SetCellNext]_vars

----------------------------------------------------------------------------
(* The tick in its steps.  stepGameOfLife is one function call, and a       *)
(* JavaScript handler or timer callback starts only when the one before it  *)
(* has returned: while a tick is between its steps no other handler and no  *)
(* other tick is enabled.  call is the step the tick has completed, pre is  *)
(* the grid the tick found, and playNotes keeps the report it was handed.   *)

TickSteps == {"update.pass", "update.swap", "playNotes"}

\* no tick is between its steps
Idle == call.op \notin TickSteps

\* playNotes called as soon as the loops of update() are through
TickPlayNotesBeforeSwap ==
    /\ call.op = "update.pass"
    /\ call' = Call("playNotes", <<grid.newborns>>, UNDEFINED)
    /\ UNCHANGED <<globals, grid, twin, pre, gens, edits>>

\* an active interval fires, stepGameOfLife calls grid.update(): the two loops
TickPass ==
    /\ Idle
    /\ DOMAIN intervals # {}
    /\ gens < MaxGens
    /\ grid' = AfterPass(grid)
    /\ twin' = grid'
    /\ pre' = grid
    /\ call' = Call("update.pass", <<>>, UNDEFINED)
    /\ UNCHANGED <<globals, gens, edits>>

\* the swap that ends grid.update()
TickSwap ==
    /\ call.op = "update.pass"
    /\ grid' = swapBuffers(grid)
    /\ twin' = grid'
    /\ call' = Call("update.swap", <<>>, UNDEFINED)
    /\ gens' = gens + 1
    /\ UNCHANGED <<globals, pre, edits>>

\* playNotes(grid): reads grid.newborns
TickPlayNotes ==
    /\ call.op = "update.swap"
    /\ call' = Call("playNotes", <<grid.newborns>>, UNDEFINED)
    /\ UNCHANGED <<globals, grid, twin, pre, gens, edits>>

\* renderGame(), the last call of stepGameOfLife
TickRenderGame ==
    /\ call.op = "playNotes"
    /\ call' = Call("renderGame", <<>>, UNDEFINED)
    /\ UNCHANGED <<globals, grid, twin, pre, gens, edits>>

TickInit ==
    \E width \in 1 .. MaxTickCanvas, height \in 1 .. MaxTickCanvas : InitOn(width, height)

TickNext ==
    \/ \E x \in 0 .. canvasWidth - 1, y \in 0 .. canvasHeight - 1, pixels \in patterns :
          Idle /\ edits = 0 /\ Stamp(x, y, pixels, <<>>)
    \/ Idle /\ PlayPause
    \/ Idle /\ Reset
    \/ Idle /\ DecCellLength
    \/ Idle /\ IncCellLength
    \/ TickPass
    \/ TickSwap
    \/ TickPlayNotes
    \/ TickRenderGame

TickSpec == TickInit /\ [][TickNext]_vars

----------------------------------------------------------------------------
(* Every button but the canvas, and the ticks.                              *)

ControlNext ==
    \/ PlayPause
    \/ Step
    \/ Reset
    \/ DecFPS
    \/ IncFPS
    \/ DecCellLength
    \/ IncCellLength

ControlSpec == TickInit /\ [][ControlNext]_vars

----------------------------------------------------------------------------
(* What the claims speak of.                                                *)

\* The positions of a Grid of integer width and height (den = 1), as every Grid
\* with cellLength 1 is.

\* (row, col) lies within [0, height) x [0, width) of g
InRange(g, row, col) == 0 <= row /\ row < g.height /\ 0 <= col /\ col < g.width

\* the positions of g
Positions(g) == (0 .. g.height - 1) \X (0 .. g.width - 1)

\* the entry of the current buffer of g that belongs to position (row, col)
CellAt(g, row, col) == g.cells[(row * g.width) + col]

\* the number of LIVE cells among the in-bounds Moore neighbours of (row, col)
LiveMooreNeighbours(g, row, col) ==
    Cardinality({ d \in ({-1, 0, 1} \X {-1, 0, 1}) \ {<<0, 0>>} :
                    /\ InRange(g, row + d[1], col + d[2])
                    /\ CellAt(g, row + d[1], col + d[2]) = LIVE_CELL })

\* the standard Game of Life rule
LifeRule(state, liveNeighbours) ==
    IF state = LIVE_CELL
    THEN IF liveNeighbours \in {2, 3} THEN LIVE_CELL ELSE DEAD_CELL
    ELSE IF liveNeighbours = 3 THEN LIVE_CELL ELSE DEAD_CELL

\* the last call was update(), on its own or as a scheduler tick
Updated == call.op \in {"update", "stepGameOfLife"}

\* how often column j is listed in the newborn entry of row i
TimesListed(g, i, j) ==
    Cardinality({ k \in 1 .. Len(g.newborns[i + 1]) : g.newborns[i + 1][k] = j })

----------------------------------------------------------------------------
(* The claims.                                                              *)

\* C1: after one update() every valid position holds the standard Game of Life
\* rule applied to the number of LIVE cells among its in-bounds Moore neighbours
\* before the update.
C1_UpdateIsLifeRule ==
    Updated =>
        \A pos \in Positions(pre) :
            CellAt(grid, pos[1], pos[2])
                = LifeRule(CellAt(pre, pos[1], pos[2]), LiveMooreNeighbours(pre, pos[1], pos[2]))

\* C2: isValidCell(row, col) returns true if and only if 0 <= row < height and
\* 0 <= col < width, for all integers row and col, negative ones included.
C2_IsValidCellIffInRange ==
    call.op = "isValidCell" =>
        (call.ret <=> InRange(pre, call.args[1], call.args[2]))

\* C3: setCell on a position outside [0, height) x [0, width) leaves every entry of
\* the current buffer and of the scratch buffer unchanged.
C3_SetCellOutOfRangeIsNoOp ==
    (call.op = "setCell" /\ ~InRange(pre, call.args[1], call.args[2])) =>
        (grid.cells = pre.cells /\ grid.next = pre.next)

\* C4: getCell returns the current-buffer state, DEAD or LIVE, of every position
\* inside [0, height) x [0, width), and the sentinel -1 for every position outside.
C4_GetCellStateOrSentinel ==
    call.op = "getCell" =>
        IF InRange(pre, call.args[1], call.args[2])
        THEN /\ call.ret = CellAt(pre, call.args[1], call.args[2])
             /\ call.ret \in {DEAD_CELL, LIVE_CELL}
        ELSE call.ret = INVALID_CELL

\* the positions a click at (originRow, originCol) with the pixel array pixels aims at
Targets(originRow, originCol, pixels) ==
    { <<originRow + pixels[(2 * k) + 2], originCol + pixels[(2 * k) + 1]>> :
        k \in 0 .. (Len(pixels) \div 2) - 1 }

\* C5: after a pattern is stamped at an origin inside the grid, every target inside
\* the grid is LIVE, every target outside is dropped (the buffer gets no other
\* entry), and every cell that is not a target keeps its state.
C5_StampSetsTargetsLive ==
    call.op = "respondToMouseClick" =>
        /\ DOMAIN grid.cells = DOMAIN pre.cells
        /\ \A pos \in Positions(pre) :
              IF pos \in Targets(call.args[1], call.args[2], call.args[3])
              THEN CellAt(grid, pos[1], pos[2]) = LIVE_CELL
              ELSE CellAt(grid, pos[1], pos[2]) = CellAt(pre, pos[1], pos[2])

\* C7: after update() the newborn report has one entry per row, lists column j in
\* the entry of row i only if cell (i, j) was DEAD before and is LIVE after, and
\* lists each such cell exactly once.
C7_NewbornReportIsExact ==
    Updated =>
        /\ Len(grid.newborns) = grid.height
        /\ \A pos \in Positions(pre) :
              TimesListed(grid, pos[1], pos[2]) =
                  IF /\ CellAt(pre, pos[1], pos[2]) = DEAD_CELL
                     /\ CellAt(grid, pos[1], pos[2]) = LIVE_CELL
                  THEN 1 ELSE 0
        /\ \A i \in 0 .. grid.height - 1 : \A k \in 1 .. Len(grid.newborns[i + 1]) :
              grid.newborns[i + 1][k] \in 0 .. grid.width - 1

\* C8: a DEAD cell with exactly 3 LIVE cells among its in-bounds Moore neighbours
\* is LIVE after one update(), and its column is in the newborn entry of its row.
C8_BirthOnThree ==
    Updated =>
        \A pos \in Positions(pre) :
            (/\ CellAt(pre, pos[1], pos[2]) = DEAD_CELL
             /\ LiveMooreNeighbours(pre, pos[1], pos[2]) = 3)
            => (/\ CellAt(grid, pos[1], pos[2]) = LIVE_CELL
                /\ TimesListed(grid, pos[1], pos[2]) >= 1)

\* C9: a LIVE cell with 0 or 1 LIVE cells among its in-bounds Moore neighbours is
\* DEAD after one update().
C9_LonelyCellDies ==
    Updated =>
        \A pos \in Positions(pre) :
            (/\ CellAt(pre, pos[1], pos[2]) = LIVE_CELL
             /\ LiveMooreNeighbours(pre, pos[1], pos[2]) \in {0, 1})
            => CellAt(grid, pos[1], pos[2]) = DEAD_CELL

\* C6: update() on two grids with identical current buffers and arbitrary scratch
\* buffers yields identical current buffers and identical newborn reports.
C6_UpdateIgnoresScratch ==
    Updated => (twin.cells = grid.cells /\ twin.newborns = grid.newborns)

\* the scratch buffers differed, and the update found cells that stay LIVE, cells
\* that die and cells that are born
C6_Witness ==
    /\ Updated
    /\ call.args = <<TRUE>>
    /\ twin.cells = grid.cells
    /\ \E pos \in Positions(pre) :
          CellAt(pre, pos[1], pos[2]) = LIVE_CELL /\ CellAt(grid, pos[1], pos[2]) = LIVE_CELL
    /\ \E pos \in Positions(pre) :
          CellAt(pre, pos[1], pos[2]) = LIVE_CELL /\ CellAt(grid, pos[1], pos[2]) = DEAD_CELL
    /\ \E i \in 1 .. Len(grid.newborns) : grid.newborns[i] # <<>>

\* the positions whose entry in buffer is LIVE
LivePositions(g, buffer) ==
    { pos \in Positions(g) : buffer[(pos[1] * g.width) + pos[2]] = LIVE_CELL }

BlinkerAcross == { <<2, 1>>, <<2, 2>>, <<2, 3>> }
BlinkerDown == { <<1, 2>>, <<2, 2>>, <<3, 2>> }

\* C10: on a grid of at least 5 x 5 whose only LIVE cells are (2,1),(2,2),(2,3), the
\* LIVE cells after one update() are exactly (1,2),(2,2),(3,2), and after a second
\* update() exactly (2,1),(2,2),(2,3) again.
C10_BlinkerOscillates ==
    /\ (Updated /\ gens = 1 /\ LivePositions(pre, pre.cells) = BlinkerAcross)
          => LivePositions(grid, grid.cells) = BlinkerDown
    /\ (/\ Updated /\ gens = 2
        /\ LivePositions(pre, pre.next) = BlinkerAcross
        /\ LivePositions(pre, pre.cells) = BlinkerDown)
          => LivePositions(grid, grid.cells) = BlinkerAcross

\* the second update() has brought the blinker back
C10_Witness ==
    /\ Updated /\ gens = 2
    /\ grid.width >= 5 /\ grid.height >= 5
    /\ LivePositions(pre, pre.next) = BlinkerAcross
    /\ LivePositions(pre, pre.cells) = BlinkerDown
    /\ LivePositions(grid, grid.cells) = BlinkerAcross

\* the 2 x 2 block whose top left cell is (row, col)
BlockAt(row, col) == { <<row, col>>, <<row, col + 1>>, <<row + 1, col>>, <<row + 1, col + 1>> }

\* the LIVE cells of buffer are one 2 x 2 block with no cell in row 0, row
\* height - 1, column 0 or column width - 1
IsInnerBlock(g, buffer) ==
    \E row \in 1 .. g.height - 3, col \in 1 .. g.width - 3 :
        LivePositions(g, buffer) = BlockAt(row, col)

\* C11: when the only LIVE cells are a 2 x 2 block that touches no edge, update()
\* leaves the current buffer unchanged and reports no newborn, update after update.
C11_InnerBlockIsStable ==
    (Updated /\ IsInnerBlock(pre, pre.cells)) =>
        /\ grid.cells = pre.cells
        /\ Len(grid.newborns) = grid.height
        /\ \A i \in 1 .. Len(grid.newborns) : grid.newborns[i] = <<>>

\* the second update() in a row of a block in the middle of a 4 x 4 grid
C11_Witness ==
    /\ Updated /\ gens = 2
    /\ grid.width = 4 /\ grid.height = 4
    /\ IsInnerBlock(pre, pre.cells)
    /\ IsInnerBlock(grid, grid.cells)

\* every entry of buffer is DEAD
AllDead(buffer) == \A index \in DOMAIN buffer : buffer[index] = DEAD_CELL

\* no row of the newborn report lists a column
NoNewborns(g) == \A i \in 1 .. Len(g.newborns) : g.newborns[i] = <<>>

\* C12: a Grid on which no setCell was applied since it was constructed stays
\* all-DEAD: after any number of update() calls every cell is DEAD and the newborn
\* report is empty.
C12_FreshGridStaysDead ==
    (edits = 0) => (AllDead(grid.cells) /\ NoNewborns(grid))

\* two updates in a row of a Grid that nothing was stamped on
C12_Witness ==
    /\ edits = 0
    /\ Updated /\ gens = 2
    /\ Len(grid.newborns) >= 2
    /\ AllDead(grid.cells)

\* the last call was a reset, or a zoom that changed the cell length
ResetOrZoomed ==
    \/ call.op = "resetGameOfLife"
    \/ (call.op \in {"decCellLength", "incCellLength"} /\ call.args[1] # cellLength)

\* C13: after a reset and after a zoom that changes the cell length, scheduler
\* running or not, the grid is a new Grid: every position the constructor covers
\* has an entry in the current and in the scratch buffer, every entry is DEAD, and
\* nothing of the previous grid is left.
C13_ResetAndZoomBuildDeadGrid ==
    ResetOrZoomed =>
        /\ DOMAIN grid.cells = constructorIndices(canvasWidth, canvasHeight, cellLength)
        /\ DOMAIN grid.next = constructorIndices(canvasWidth, canvasHeight, cellLength)
        /\ AllDead(grid.cells)
        /\ AllDead(grid.next)
        /\ grid.newborns = <<>>

\* a zoom while the scheduler runs, away from a grid with LIVE cells
C13_Witness ==
    /\ call.op = "incCellLength"
    /\ call.args[1] # cellLength
    /\ timer # NULL
    /\ ~AllDead(pre.cells)
    /\ AllDead(grid.cells)

C16_PauseIsIdempotent ==
    [][ (call'.op = "pauseGameOfLife") =>
            /\ timer' = NULL
            /\ DOMAIN intervals' = {}
            /\ UNCHANGED <<grid, fps, cellLength>>
            /\ (timer = NULL) => UNCHANGED <<globals, grid>> ]_vars

\* a second pauseGameOfLife, after the scheduler ran and was paused
C16_Witness ==
    /\ call.op = "pauseGameOfLife"
    /\ call.args = <<NULL>>
    /\ timer = NULL
    /\ gens >= 1

\* C17: incFPS and decFPS run no update(); when the scheduler runs they replace its
\* interval by one with the new period 1000 / fps, so that the period of the active
\* interval is always the current frameInterval; when it is paused they leave it
\* paused.
C17_FpsChangeReschedules ==
    /\ []((timer # NULL) => (DOMAIN intervals = {timer} /\ intervals[timer] = frameInterval))
    /\ [][ (call'.op \in {"incFPS", "decFPS"}) =>
              /\ UNCHANGED <<grid, gens>>
              /\ (timer = NULL) => UNCHANGED <<timer, intervals>>
              /\ (timer # NULL /\ fps' # fps) =>
                    /\ timer' # NULL
                    /\ DOMAIN intervals' = {timer'}
                    /\ intervals'[timer'] = JsDivide(1000, fps')
              /\ (timer # NULL /\ fps' = fps) => UNCHANGED <<timer, intervals>> ]_vars

\* decFPS has changed the period between two ticks of the running scheduler
C17_Witness ==
    /\ call.op = "decFPS"
    /\ call.args # <<fps>>
    /\ timer # NULL
    /\ intervals[timer] = JsDivide(1000, fps)
    /\ gens = 1

\* the neighbour positions that the cached classification of (row, col) selects
SelectedNeighbours(g, row, col) ==
    LET cellsToCheck == cellLookup[determineCellType(g, row, col)]
    IN  { <<row + cellsToCheck.cellValues[(2 * k) + 2], col + cellsToCheck.cellValues[(2 * k) + 1]>> :
            k \in 0 .. cellsToCheck.numNeighbors - 1 }

\* C18: on a grid with width >= 2 and height >= 2, every neighbour that the cached
\* classification of a valid position selects lies within [0, height) x [0, width).
C18_LookupStaysInBounds ==
    (grid.width >= 2 /\ grid.height >= 2) =>
        \A pos \in Positions(grid) :
            \A neighbour \in SelectedNeighbours(grid, pos[1], pos[2]) :
                InRange(grid, neighbour[1], neighbour[2])

\* the classification by the four edges, corners first
EdgeClass(g, row, col) ==
    IF (row = 0) /\ (col = 0) THEN TOP_LEFT
    ELSE IF (row = 0) /\ (col = g.width - 1) THEN TOP_RIGHT
    ELSE IF (row = g.height - 1) /\ (col = 0) THEN BOTTOM_LEFT
    ELSE IF (row = g.height - 1) /\ (col = g.width - 1) THEN BOTTOM_RIGHT
    ELSE IF row = 0 THEN TOP
    ELSE IF row = g.height - 1 THEN BOTTOM
    ELSE IF col = 0 THEN LEFT
    ELSE IF col = g.width - 1 THEN RIGHT
    ELSE CENTER

\* C19: on a grid with width >= 2 and height >= 2, square or not, the classification
\* cached for a position is the one its place relative to the four edges gives,
\* corners first.
C19_CachedTypeIsEdgeClass ==
    (grid.width >= 2 /\ grid.height >= 2) =>
        \A pos \in Positions(grid) :
            determineCellType(grid, pos[1], pos[2]) = EdgeClass(grid, pos[1], pos[2])

\* C20: the pass of update() leaves the current buffer as it was and writes the
\* scratch buffer; after the swap the current buffer is the scratch buffer the pass
\* wrote and the scratch buffer is the former current buffer, unchanged.
C20_PassWritesScratchThenSwaps ==
    Updated =>
        /\ AfterPass(pre).cells = pre.cells
        /\ grid.cells = AfterPass(pre).next
        /\ grid.next = pre.cells

\* an update that changed the grid, with LIVE cells before and after it
C20_Witness ==
    /\ Updated
    /\ grid.cells # pre.cells
    /\ grid.next = pre.cells
    /\ ~AllDead(pre.cells)
    /\ ~AllDead(grid.cells)

\* C21: setCell at a position within [0, height) x [0, width) changes no entry of
\* the current buffer other than the one of that position, and leaves the scratch
\* buffer, the classification cache, width and height as they were.
C21_SetCellTouchesOneEntry ==
    (call.op = "setCell" /\ InRange(pre, call.args[1], call.args[2])) =>
        /\ DOMAIN grid.cells = DOMAIN pre.cells
        /\ \A pos \in Positions(pre) \ {<<call.args[1], call.args[2]>>} :
              CellAt(grid, pos[1], pos[2]) = CellAt(pre, pos[1], pos[2])
        /\ grid.next = pre.next
        /\ grid.cell_types = pre.cell_types
        /\ grid.width = pre.width
        /\ grid.height = pre.height

\* setCell has changed a cell of a grid whose two buffers differ and hold LIVE cells
C21_Witness ==
    /\ call.op = "setCell"
    /\ InRange(pre, call.args[1], call.args[2])
    /\ grid.cells # pre.cells
    /\ ~AllDead(pre.cells)
    /\ ~AllDead(pre.next)
    /\ pre.next # pre.cells

C23_GridDimensionsAreFloored ==
    ResetOrZoomed =>
        LET width == canvasWidth \div cellLength
            height == canvasHeight \div cellLength
            indices == { flatIndex(width * grid.den, grid.den, row, col) :
                           row \in 0 .. height - 1, col \in 0 .. width - 1 }
        IN  /\ grid.width = width * grid.den
            /\ grid.height = height * grid.den
            /\ Cardinality(indices) = width * height
            /\ DOMAIN grid.cells = indices
            /\ DOMAIN grid.next = indices
            /\ DOMAIN grid.cell_types = indices

\* C24: at most one interval is active, timer is null exactly when none is, and
\* only the play/pause button changes whether the scheduler runs.
C24_OneTimerOnlyPlayPauseToggles ==
    /\ [](/\ Cardinality(DOMAIN intervals) <= 1
          /\ (timer = NULL) <=> (DOMAIN intervals = {}))
    /\ [][ ((timer = NULL) # (timer' = NULL)) => (call'.op = "play_pause") ]_vars

\* the frame rate was changed while the scheduler ran, after a zoom and a tick
C24_Witness ==
    /\ call.op = "incFPS"
    /\ call.args # <<fps>>
    /\ timer # NULL
    /\ DOMAIN intervals = {timer}
    /\ cellLength > 1
    /\ gens >= 1

====
